---------------------------- MODULE Spec2Model ----------------------------
(***************************************************************************)
(* Model of the Spanish NER service core (drzippie/ner-service):           *)
(*   - backends/base.py      tag normalizer and entity deduplicator        *)
(*   - backends/spacy_backend.py, backends/mitie_backend.py  adapters      *)
(*   - config.py             process-wide configuration                    *)
(*   - ner_core.py           factory, SpanishNER facade, lifecycle cache   *)
(*                                                                         *)
(* Python strings that the code transforms (upper, lower, strip, join,     *)
(* format) are sequences of one-character strings, so that the             *)
(* transformations are computed character by character.  Strings that are  *)
(* only compared (exception names, model identifiers) are TLA+ strings.    *)
(***************************************************************************)
EXTENDS Integers, Sequences, FiniteSets, TLC

(***************************************************************************)
(* Bounds of the model.                                                    *)
(***************************************************************************)
\* number of SpanishNER instances one run may construct
MaxInstances == 2
\* number of get_ner_instance calls the threads of one run may make
MaxCalls == 3
\* length of the raw result list an engine returns to an adapter
MaxRaw == 2
\* length of the entity list handed to the deduplicator directly
MaxEnts == 3

(***************************************************************************)
(* Python str operations.                                                  *)
(***************************************************************************)
LowerLetters ==
    <<"a", "b", "c", "d", "e", "f", "g", "h", "i", "j", "k", "l", "m",
      "n", "o", "p", "q", "r", "s", "t", "u", "v", "w", "x", "y", "z">>

UpperLetters ==
    <<"A", "B", "C", "D", "E", "F", "G", "H", "I", "J", "K", "L", "M",
      "N", "O", "P", "Q", "R", "S", "T", "U", "V", "W", "X", "Y", "Z">>

Whitespace == {" ", "\t", "\n"}

\* the letters str.upper() changes, with what it changes them to
upper_table ==
    [c \in {LowerLetters[i] : i \in DOMAIN LowerLetters} |->
        UpperLetters[CHOOSE i \in DOMAIN LowerLetters : LowerLetters[i] = c]]

\* the letters str.lower() changes, with what it changes them to
lower_table ==
    [c \in {UpperLetters[i] : i \in DOMAIN UpperLetters} |->
        LowerLetters[CHOOSE i \in DOMAIN UpperLetters : UpperLetters[i] = c]]

upper_char(c) == IF c \in DOMAIN upper_table THEN upper_table[c] ELSE c

lower_char(c) == IF c \in DOMAIN lower_table THEN lower_table[c] ELSE c

\* str.upper()
upper(s) == [i \in 1..Len(s) |-> upper_char(s[i])]

\* str.lower()
lower(s) == [i \in 1..Len(s) |-> lower_char(s[i])]

RECURSIVE lstrip(_)
lstrip(s) ==
    IF s # <<>> /\ Head(s) \in Whitespace THEN lstrip(Tail(s)) ELSE s

RECURSIVE rstrip(_)
rstrip(s) ==
    IF s # <<>> /\ s[Len(s)] \in Whitespace
    THEN rstrip(SubSeq(s, 1, Len(s) - 1))
    ELSE s

\* strip that removes nothing: a text of whitespace only then counts as
\* having content
strip_none(s) == s

\* str.strip()
strip(s) == rstrip(lstrip(s))

\* " ".join(tokens)
RECURSIVE join_space(_)
join_space(tokens) ==
    IF tokens = <<>> THEN <<>>
    ELSE IF Len(tokens) = 1 THEN tokens[1]
    ELSE tokens[1] \o <<" ">> \o join_space(Tail(tokens))

\* dict.get(key, default) on a dict given as its set of <<key, value>> items
dict_get(items, key, default) ==
    IF \E p \in items : p[1] = key
    THEN (CHOOSE p \in items : p[1] = key)[2]
    ELSE default

\* Python None; an empty str is falsy in the same way (x or y)
None == <<>>

(***************************************************************************)
(* Canonical tags and the tag normalizer (backends/base.py).               *)
(***************************************************************************)
PERSON == <<"P", "E", "R", "S", "O", "N">>
LOCATION == <<"L", "O", "C", "A", "T", "I", "O", "N">>
ORGANIZATION == <<"O", "R", "G", "A", "N", "I", "Z", "A", "T", "I", "O", "N">>
MISC == <<"M", "I", "S", "C">>
PLACE == <<"P", "L", "A", "C", "E">>
PER == <<"P", "E", "R">>
LOC == <<"L", "O", "C">>
ORG == <<"O", "R", "G">>
GPE == <<"G", "P", "E">>
FAC == <<"F", "A", "C">>
FACILITY == <<"F", "A", "C", "I", "L", "I", "T", "Y">>

tag_mapping ==
    { <<PER, PERSON>>,
      <<PERSON, PERSON>>,
      <<LOC, LOCATION>>,
      <<LOCATION, LOCATION>>,
      <<GPE, LOCATION>>,
      <<ORG, ORGANIZATION>>,
      <<ORGANIZATION, ORGANIZATION>>,
      <<MISC, MISC>>,
      <<<<"N", "O", "R", "P">>, MISC>>,
      <<FACILITY, PLACE>>,
      <<FAC, PLACE>>,
      <<PLACE, PLACE>>,
      <<<<"E", "V", "E", "N", "T">>, MISC>>,
      <<<<"W", "O", "R", "K", "_", "O", "F", "_", "A", "R", "T">>, MISC>>,
      <<<<"L", "A", "W">>, MISC>>,
      <<<<"L", "A", "N", "G", "U", "A", "G", "E">>, MISC>>,
      <<<<"D", "A", "T", "E">>, MISC>>,
      <<<<"T", "I", "M", "E">>, MISC>>,
      <<<<"P", "E", "R", "C", "E", "N", "T">>, MISC>>,
      <<<<"M", "O", "N", "E", "Y">>, MISC>>,
      <<<<"Q", "U", "A", "N", "T", "I", "T", "Y">>, MISC>>,
      <<<<"O", "R", "D", "I", "N", "A", "L">>, MISC>>,
      <<<<"C", "A", "R", "D", "I", "N", "A", "L">>, MISC>> }

\* the lookup without tag.upper()
normalize_tag_case_sensitive(tag) == dict_get(tag_mapping, tag, MISC)

\* the lookup after removing a one-letter boundary marker ("B-", "I-", ...)
normalize_tag_strip_prefix(tag) ==
    dict_get(tag_mapping,
             upper(IF Len(tag) > 2 /\ tag[2] = "-"
                   THEN SubSeq(tag, 3, Len(tag)) ELSE tag),
             MISC)

\* NERBackend._normalize_tag
normalize_tag(tag) == dict_get(tag_mapping, upper(tag), MISC)

mitie_mapping ==
    { <<PERSON, PERSON>>,
      <<LOCATION, LOCATION>>,
      <<ORGANIZATION, ORGANIZATION>>,
      <<ORG, ORGANIZATION>>,
      <<LOC, LOCATION>>,
      <<PER, PERSON>> }

\* MitieNERBackend._normalize_mitie_tag
normalize_mitie_tag(tag) ==
    LET normalized == dict_get(mitie_mapping, upper(tag), None)
    IN  IF normalized # None THEN normalized ELSE normalize_tag(tag)

\* get_supported_entities (the same list in both adapters)
supported_entities == {PERSON, LOCATION, ORGANIZATION, MISC, PLACE}

(***************************************************************************)
(* Entity deduplicator (backends/base.py).  An entity is a record          *)
(* [tag, score, label].                                                    *)
(***************************************************************************)
\* the key built from the label before it is cleaned
entity_key_raw(entity) == <<lower(entity.label), entity.tag>>

\* the key that also tells scores apart
entity_key_with_score(entity) ==
    <<lower(strip(entity.label)), entity.tag, entity.score>>

\* entity_key = (clean_label.lower(), entity["tag"])
entity_key(entity) == <<lower(strip(entity.label)), entity.tag>>

RECURSIVE unique_loop(_, _, _)
unique_loop(entities, seen_entities, unique_entities) ==
    IF entities = <<>> THEN unique_entities
    ELSE LET entity == Head(entities)
             clean_label == strip(entity.label)
         IN  IF entity_key(entity) \notin seen_entities
             THEN unique_loop(Tail(entities),
                              seen_entities \cup {entity_key(entity)},
                              Append(unique_entities,
                                     [entity EXCEPT !.label = clean_label]))
             ELSE unique_loop(Tail(entities), seen_entities, unique_entities)

\* the deduplicator that returns its input
ensure_unique_entities_none(entities) == entities

\* NERBackend._ensure_unique_entities
ensure_unique_entities(entities) == unique_loop(entities, {}, <<>>)

(***************************************************************************)
(* Scores.  An engine confidence is an integer number of hundred-          *)
(* thousandths (0.5 is 50000); the adapters surface it as a decimal        *)
(* string.                                                                 *)
(***************************************************************************)
\* mitie_backend.py: "score >= 0.5"
MIN_SCORE == 50000
\* mitie_backend.py: "score = 0.95  # Default score when not provided"
DEFAULT_SCORE == 95000
\* spacy_backend.py: "score": "0.95"
SPACY_SCORE == <<"0", ".", "9", "5">>

Digits == <<"0", "1", "2", "3", "4", "5", "6", "7", "8", "9">>

RECURSIVE int_to_str(_)
int_to_str(n) ==
    IF n < 10 THEN <<Digits[n + 1]>>
    ELSE int_to_str(n \div 10) \o <<Digits[(n % 10) + 1]>>

\* f"{score:.4f}" for a score >= 0 that is not halfway between two
\* four-decimal values
format_4f(score) ==
    LET q == (score + 5) \div 10
        f == q % 10000
    IN  int_to_str(q \div 10000) \o <<".">>
        \o <<Digits[(f \div 1000) + 1], Digits[((f \div 100) % 10) + 1],
             Digits[((f \div 10) % 10) + 1], Digits[(f % 10) + 1]>>

(***************************************************************************)
(* Adapters.  An adapter object is a record                                *)
(*   [backend, model_name, is_loaded, handle]                              *)
(* where handle is the loaded engine object (self.nlp / self.ner): the     *)
(* name of the artifact it was loaded from, or "none".  An engine outcome  *)
(* is [raises, ents]: the engine call raises, or returns the raw list.     *)
(* An extraction returns [err, entities, engine_calls].                    *)
(***************************************************************************)
NoError == "none"

\* the body of the for loop of SpacyNERBackend.extract_entities
RECURSIVE spacy_collect(_)
spacy_collect(ents) ==
    IF ents = <<>> THEN <<>>
    ELSE LET ent == Head(ents)
             normalized_tag == normalize_tag(ent.label_)
         IN  (IF normalized_tag \in supported_entities
              THEN <<[tag |-> normalized_tag, score |-> SPACY_SCORE,
                      label |-> ent.text]>>
              ELSE <<>>)
             \o spacy_collect(Tail(ents))

\* SpacyNERBackend.extract_entities
spacy_extract_entities(self, text, engine) ==
    IF ~self.is_loaded \/ self.handle = "none"
    THEN [err |-> "RuntimeError", entities |-> <<>>, engine_calls |-> 0]
    ELSE IF text = <<>> \/ strip(text) = <<>>
    THEN [err |-> NoError, entities |-> <<>>, engine_calls |-> 0]
    ELSE IF engine.raises
    THEN [err |-> "RuntimeError", entities |-> <<>>, engine_calls |-> 1]
    ELSE [err |-> NoError,
          entities |-> ensure_unique_entities(spacy_collect(engine.ents)),
          engine_calls |-> 1]

\* the loop that keeps only scores above the minimum
RECURSIVE mitie_collect_strict(_)
mitie_collect_strict(ner_results) ==
    IF ner_results = <<>> THEN <<>>
    ELSE LET entity == Head(ner_results)
             score == IF entity.len = 2 THEN DEFAULT_SCORE ELSE entity.score
             entity_text == join_space(entity.tokens)
             normalized_tag == normalize_mitie_tag(entity.tag)
         IN  (IF entity.len \notin {2, 3} THEN <<>>
              ELSE IF normalized_tag \in supported_entities /\ score > MIN_SCORE
              THEN <<[tag |-> normalized_tag, score |-> format_4f(score),
                      label |-> entity_text]>>
              ELSE <<>>)
             \o mitie_collect_strict(Tail(ner_results))

\* the body of the for loop of MitieNERBackend.extract_entities; a raw
\* result is [len, tag, score, tokens]: the tuple's length, its tag, its
\* score (when len = 3) and the token slice of its range
RECURSIVE mitie_collect(_)
mitie_collect(ner_results) ==
    IF ner_results = <<>> THEN <<>>
    ELSE LET entity == Head(ner_results)
             score == IF entity.len = 2 THEN DEFAULT_SCORE ELSE entity.score
             entity_text == join_space(entity.tokens)
             normalized_tag == normalize_mitie_tag(entity.tag)
         IN  (IF entity.len \notin {2, 3} THEN <<>>
              ELSE IF normalized_tag \in supported_entities /\ score >= MIN_SCORE
              THEN <<[tag |-> normalized_tag, score |-> format_4f(score),
                      label |-> entity_text]>>
              ELSE <<>>)
             \o mitie_collect(Tail(ner_results))

\* MitieNERBackend.extract_entities
mitie_extract_entities(self, text, engine) ==
    IF ~self.is_loaded \/ self.handle = "none"
    THEN [err |-> "RuntimeError", entities |-> <<>>, engine_calls |-> 0]
    ELSE IF text = <<>> \/ strip(text) = <<>>
    THEN [err |-> NoError, entities |-> <<>>, engine_calls |-> 0]
    ELSE IF engine.raises
    THEN [err |-> "RuntimeError", entities |-> <<>>, engine_calls |-> 1]
    ELSE [err |-> NoError,
          entities |-> ensure_unique_entities(mitie_collect(engine.ents)),
          engine_calls |-> 1]

spacy == <<"s", "p", "a", "c", "y">>
mitie == <<"m", "i", "t", "i", "e">>

\* SpanishNER.extract_entities: dispatch on the adapter's class
backend_extract_entities(adapter, text, engine) ==
    IF adapter.backend = spacy
    THEN spacy_extract_entities(adapter, text, engine)
    ELSE mitie_extract_entities(adapter, text, engine)

\* get_backend_info of either adapter (the fields the core reads)
backend_info(adapter) ==
    [backend |-> adapter.backend, model |-> adapter.model_name,
     is_loaded |-> adapter.is_loaded]

(***************************************************************************)
(* State.                                                                  *)
(***************************************************************************)
VARIABLES
    spacy_lib,        \* the spacy package can be imported
    mitie_lib,        \* the mitie package can be imported
    files,            \* model artifact -> "ok" | "missing" | "broken"
    ner_backend,      \* config._config["ner_backend"]
    ner_instance,     \* ner_core._ner_instance
    current_backend,  \* ner_core._current_backend
    instances,        \* number of SpanishNER objects constructed so far
    last,             \* the last call of the facade: arguments, outcome and
                      \* the cache and default it started from
    call,             \* the last direct call of an adapter method
    threads           \* thread -> the get_ner_instance call it is in or
                      \* has made: position, locals, outcome

vars == <<spacy_lib, mitie_lib, files, ner_backend, ner_instance,
          current_backend, instances, last, call, threads>>

core_vars == <<spacy_lib, mitie_lib, files, ner_backend, ner_instance,
               current_backend, instances, last, threads>>

(***************************************************************************)
(* Configuration (config.py).                                              *)
(***************************************************************************)
DEFAULT_BACKEND == mitie
DEFAULT_SPACY_MODEL == "es_core_news_md"
FALLBACK_SPACY_MODEL == "es_core_news_sm"
DEFAULT_MITIE_MODEL == "MITIE-models/spanish/ner_model.dat"

Artifacts == {DEFAULT_SPACY_MODEL, FALLBACK_SPACY_MODEL, DEFAULT_MITIE_MODEL}

\* what loading an artifact can meet: it loads; it is not found (spacy.load
\* raises OSError, os.path.exists is false); it is found and loading raises
\* another exception
FileStatus == {"ok", "missing", "broken"}

\* MITIE turns every failure to load into the same RuntimeError, so one
\* failing status stands for both
StatusOf(artifact) ==
    IF artifact = DEFAULT_MITIE_MODEL THEN {"ok", "missing"} ELSE FileStatus

\* Config.get_supported_backends
supported_backends == {spacy, mitie}

\* Config.is_valid_backend
is_valid_backend(backend) == lower(backend) \in {spacy, mitie}

(***************************************************************************)
(* Adapter construction.  A construction returns [err, adapter].           *)
(***************************************************************************)
NoAdapter ==
    [backend |-> None, model_name |-> "none", is_loaded |-> FALSE,
     handle |-> "none"]

\* load_model whose fallback does not assign self.model_name
spacy_load_model_keeps_name(model_name) ==
    IF files[model_name] = "ok"
    THEN [err |-> NoError,
          adapter |-> [backend |-> spacy, model_name |-> model_name,
                       is_loaded |-> TRUE, handle |-> model_name]]
    ELSE IF files[model_name] = "missing"
    THEN IF files[FALLBACK_SPACY_MODEL] = "ok"
         THEN [err |-> NoError,
               adapter |-> [backend |-> spacy, model_name |-> model_name,
                            is_loaded |-> TRUE,
                            handle |-> FALLBACK_SPACY_MODEL]]
         ELSE IF files[FALLBACK_SPACY_MODEL] = "missing"
         THEN [err |-> "RuntimeError", adapter |-> NoAdapter]
         ELSE [err |-> "Exception", adapter |-> NoAdapter]
    ELSE [err |-> "RuntimeError", adapter |-> NoAdapter]

\* SpacyNERBackend.load_model on a fresh adapter: spacy.load raises OSError
\* for a "missing" artifact and another exception for a "broken" one
spacy_load_model(model_name) ==
    IF files[model_name] = "ok"
    THEN [err |-> NoError,
          adapter |-> [backend |-> spacy, model_name |-> model_name,
                       is_loaded |-> TRUE, handle |-> model_name]]
    ELSE IF files[model_name] = "missing"
    THEN IF files[FALLBACK_SPACY_MODEL] = "ok"
         THEN [err |-> NoError,
               adapter |-> [backend |-> spacy,
                            model_name |-> FALLBACK_SPACY_MODEL,
                            is_loaded |-> TRUE,
                            handle |-> FALLBACK_SPACY_MODEL]]
         ELSE IF files[FALLBACK_SPACY_MODEL] = "missing"
         THEN [err |-> "RuntimeError", adapter |-> NoAdapter]
         ELSE [err |-> "Exception", adapter |-> NoAdapter]
    ELSE [err |-> "RuntimeError", adapter |-> NoAdapter]

\* MitieNERBackend.load_model on a fresh adapter
mitie_load_model(model_path) ==
    IF ~mitie_lib
    THEN [err |-> "ImportError", adapter |-> NoAdapter]
    ELSE IF files[model_path] = "ok"
    THEN [err |-> NoError,
          adapter |-> [backend |-> mitie, model_name |-> model_path,
                       is_loaded |-> TRUE, handle |-> model_path]]
    ELSE [err |-> "RuntimeError", adapter |-> NoAdapter]

\* the factory that builds the default spaCy adapter for a name it does not
\* know, instead of raising ValueError
create_backend_fallback(backend_name) ==
    LET name == lower(IF backend_name # None THEN backend_name
                      ELSE ner_backend)
    IN  IF name = mitie THEN mitie_load_model(DEFAULT_MITIE_MODEL)
        ELSE spacy_load_model(DEFAULT_SPACY_MODEL)

\* NERBackendFactory.create_backend
create_backend(backend_name) ==
    LET name == lower(IF backend_name # None THEN backend_name
                      ELSE ner_backend)
    IN  IF name = spacy THEN spacy_load_model(DEFAULT_SPACY_MODEL)
        ELSE IF name = mitie THEN mitie_load_model(DEFAULT_MITIE_MODEL)
        ELSE [err |-> "ValueError", adapter |-> NoAdapter]

(***************************************************************************)
(* Facade and lifecycle cache (ner_core.py).  A SpanishNER object is       *)
(* [id, backend_name, backend]; id tells objects apart.                    *)
(***************************************************************************)
NoInstance == [id |-> 0, backend_name |-> None, backend |-> NoAdapter]

\* SpanishNER.__init__: returns [err, obj]
SpanishNER(backend) ==
    LET backend_name == IF backend # None THEN backend ELSE ner_backend
        made == create_backend(backend_name)
    IN  IF made.err # NoError
        THEN [err |-> made.err, obj |-> NoInstance]
        ELSE [err |-> NoError,
              obj |-> [id |-> instances + 1, backend_name |-> backend_name,
                       backend |-> made.adapter]]

\* get_ner_instance that never uses the cache
get_ner_instance_always_reload(backend, force_reload) ==
    LET requested_backend == IF backend # None THEN backend ELSE ner_backend
        new == SpanishNER(requested_backend)
    IN  IF new.err # NoError
        THEN [err |-> new.err, ret |-> NoInstance,
              inst |-> ner_instance, cur |-> current_backend,
              factory_calls |-> 1]
        ELSE [err |-> NoError, ret |-> new.obj,
              inst |-> new.obj, cur |-> requested_backend,
              factory_calls |-> 1]

\* get_ner_instance that does not compare the requested name with the
\* cached one
get_ner_instance_ignore_name(backend, force_reload) ==
    LET requested_backend == IF backend # None THEN backend ELSE ner_backend
    IN  IF ner_instance = NoInstance \/ force_reload
        THEN LET new == SpanishNER(requested_backend)
             IN  IF new.err # NoError
                 THEN [err |-> new.err, ret |-> NoInstance,
                       inst |-> ner_instance, cur |-> current_backend,
                       factory_calls |-> 1]
                 ELSE [err |-> NoError, ret |-> new.obj,
                       inst |-> new.obj, cur |-> requested_backend,
                       factory_calls |-> 1]
        ELSE [err |-> NoError, ret |-> ner_instance,
              inst |-> ner_instance, cur |-> current_backend,
              factory_calls |-> 0]

\* get_ner_instance that stores the requested name before it constructs
\* the instance
get_ner_instance_name_first(backend, force_reload) ==
    LET requested_backend == IF backend # None THEN backend ELSE ner_backend
    IN  IF ner_instance = NoInstance
           \/ current_backend # requested_backend
           \/ force_reload
        THEN LET new == SpanishNER(requested_backend)
             IN  IF new.err # NoError
                 THEN [err |-> new.err, ret |-> NoInstance,
                       inst |-> ner_instance, cur |-> requested_backend,
                       factory_calls |-> 1]
                 ELSE [err |-> NoError, ret |-> new.obj,
                       inst |-> new.obj, cur |-> requested_backend,
                       factory_calls |-> 1]
        ELSE [err |-> NoError, ret |-> ner_instance,
              inst |-> ner_instance, cur |-> current_backend,
              factory_calls |-> 0]

\* get_ner_instance: returns the outcome [err, ret], the cache it leaves
\* [inst, cur] and the number of factory invocations it made
get_ner_instance(backend, force_reload) ==
    LET requested_backend == IF backend # None THEN backend ELSE ner_backend
    IN  IF ner_instance = NoInstance
           \/ current_backend # requested_backend
           \/ force_reload
        THEN LET new == SpanishNER(requested_backend)
             IN  IF new.err # NoError
                 THEN [err |-> new.err, ret |-> NoInstance,
                       inst |-> ner_instance, cur |-> current_backend,
                       factory_calls |-> 1]
                 ELSE [err |-> NoError, ret |-> new.obj,
                       inst |-> new.obj, cur |-> requested_backend,
                       factory_calls |-> 1]
        ELSE [err |-> NoError, ret |-> ner_instance,
              inst |-> ner_instance, cur |-> current_backend,
              factory_calls |-> 0]

(***************************************************************************)
(* Inputs of the facade.                                                   *)
(***************************************************************************)
SPACY == <<"S", "P", "A", "C", "Y">>
bogus == <<"b", "o", "g", "u", "s">>

\* backend arguments: absent, the two supported names, a supported name in
\* another letter case, an unknown name
BackendArgs == {None, spacy, mitie, SPACY, bogus}

\* texts: empty, whitespace only, and with content
Texts == {<<>>, <<" ", "\t">>, <<" ", "J">>}

NoEngine == [raises |-> FALSE, ents |-> <<>>]

\* a text of whitespace only
Blank(text) == \A i \in DOMAIN text : text[i] \in Whitespace

\* what the engine of an adapter does with a text if it is called: raise,
\* return nothing or return one result (for a text without content: raise)
EngineOutcomes(adapter, text) ==
    {[raises |-> TRUE, ents |-> <<>>]}
    \cup (IF Blank(text) THEN {}
          ELSE IF adapter.backend = spacy
          THEN {NoEngine,
                [raises |-> FALSE,
                 ents |-> <<[label_ |-> PER, text |-> <<"J">>]>>]}
          ELSE {NoEngine,
                [raises |-> FALSE,
                 ents |-> <<[len |-> 3, tag |-> PERSON, score |-> 98765,
                             tokens |-> << <<"J">> >>]>>]})

NoInfo == backend_info(NoAdapter)


\* the record of one direct call
Direct(fn, tag, text, engine, entities, out) ==
    [fn |-> fn, tag |-> tag, text |-> text, engine |-> engine,
     entities |-> entities, out |-> out]

NoCall == Direct("none", <<>>, <<>>, NoEngine, <<>>, <<>>)

\* the record of one call of the facade
Called(op, backend, force_reload, text, err, ret, entities, info, factory_calls, engine_calls) ==
    [op |-> op, backend |-> backend, force_reload |-> force_reload,
     text |-> text, err |-> err, ret |-> ret, entities |-> entities,
     info |-> info, factory_calls |-> factory_calls,
     engine_calls |-> engine_calls,
     pre_instance |-> ner_instance, pre_backend |-> current_backend,
     pre_default |-> ner_backend]

(***************************************************************************)
(* The facade's functions.  Each returns its outcome [err, ret, entities,  *)
(* info], the cache [inst, cur] and the default it leaves, and the number  *)
(* of factory invocations and engine calls it made.                        *)
(***************************************************************************)
Outcome(err, ret, entities, info, inst, cur, default, factory_calls, engine_calls) ==
    [err |-> err, ret |-> ret, entities |-> entities, info |-> info,
     inst |-> inst, cur |-> cur, default |-> default,
     factory_calls |-> factory_calls, engine_calls |-> engine_calls]

\* extract_entities that drops the cached instance when the engine raises
extract_entities_invalidate(text, backend, engine) ==
    LET g == get_ner_instance(backend, FALSE)
    IN  IF g.err # NoError
        THEN Outcome(g.err, NoInstance, <<>>, NoInfo, g.inst, g.cur,
                     ner_backend, g.factory_calls, 0)
        ELSE LET x == backend_extract_entities(g.ret.backend, text, engine)
             IN  IF x.err # NoError
                 THEN Outcome(x.err, g.ret, x.entities, NoInfo, NoInstance,
                              None, ner_backend, g.factory_calls,
                              x.engine_calls)
                 ELSE Outcome(x.err, g.ret, x.entities, NoInfo, g.inst,
                              g.cur, ner_backend, g.factory_calls,
                              x.engine_calls)

\* ner_core.extract_entities(text, backend); engine is what the resolved
\* adapter's engine does if it is called
extract_entities(text, backend, engine) ==
    LET g == get_ner_instance(backend, FALSE)
    IN  IF g.err # NoError
        THEN Outcome(g.err, NoInstance, <<>>, NoInfo, g.inst, g.cur,
                     ner_backend, g.factory_calls, 0)
        ELSE LET x == backend_extract_entities(g.ret.backend, text, engine)
             IN  Outcome(x.err, g.ret, x.entities, NoInfo, g.inst, g.cur,
                         ner_backend, g.factory_calls, x.engine_calls)

\* ner_core.get_backend_info(backend)
get_backend_info(backend) ==
    LET g == get_ner_instance(backend, FALSE)
    IN  Outcome(g.err, g.ret, <<>>,
                IF g.err = NoError THEN backend_info(g.ret.backend)
                ELSE NoInfo,
                g.inst, g.cur, ner_backend, g.factory_calls, 0)

\* Config.set_backend that stores the name as given
config_set_backend_raw(backend) == backend

\* Config.set_backend: the value it stores
config_set_backend(backend) == lower(backend)

\* ner_core.set_backend(backend)
set_backend(backend) ==
    IF ~is_valid_backend(backend)
    THEN Outcome("ValueError", NoInstance, <<>>, NoInfo, ner_instance,
                 current_backend, ner_backend, 0, 0)
    ELSE LET g == get_ner_instance(backend, TRUE)
         IN  Outcome(g.err, g.ret, <<>>, NoInfo, g.inst, g.cur,
                     config_set_backend(backend), g.factory_calls, 0)

(***************************************************************************)
(* Threads that call get_ner_instance.  A thread is                        *)
(*   [pc, calls, backend, force_reload, requested_backend, rebuild, built, *)
(*    ret, err, factory_calls, overlapped, pre_instance, pre_backend]      *)
(* pc is the line of ner_core.py the thread is about to execute ("idle"    *)
(* between calls); rebuild tells that the condition of line 135 held;      *)
(* overlapped tells that another thread was inside get_ner_instance at     *)
(* some time during the call.                                              *)
(***************************************************************************)
Threads == {"t1", "t2"}

NoThread ==
    [pc |-> "idle", calls |-> 0, backend |-> None, force_reload |-> FALSE,
     requested_backend |-> None, rebuild |-> FALSE, built |-> NoInstance,
     ret |-> NoInstance, err |-> NoError, factory_calls |-> 0,
     overlapped |-> FALSE, pre_instance |-> NoInstance,
     pre_backend |-> None]

(***************************************************************************)
(* Operations.                                                             *)
(***************************************************************************)
Init ==
    /\ spacy_lib \in BOOLEAN
    /\ mitie_lib \in BOOLEAN
    /\ files \in [Artifacts -> FileStatus]
    /\ \A artifact \in Artifacts : files[artifact] \in StatusOf(artifact)
    /\ ner_backend \in {spacy, mitie}
    /\ ner_instance = NoInstance
    /\ current_backend = None
    /\ instances = 0
    /\ last = Called("none", None, FALSE, <<>>, NoError, NoInstance, <<>>,
                     NoInfo, 0, 0)
    /\ call = NoCall
    /\ threads = [t \in Threads |-> NoThread]

\* one call op(backend, force_reload, text) with outcome o: the state it
\* leaves and its record (the functions exist only if ner_core could be
\* imported, hence spacy_lib in every operation)
Apply(op, backend, force_reload, text, o) ==
    /\ o.inst # ner_instance => instances < MaxInstances
    /\ ner_instance' = o.inst
    /\ current_backend' = o.cur
    /\ ner_backend' = o.default
    /\ instances' = IF o.inst # ner_instance THEN instances + 1
                    ELSE instances
    /\ last' = Called(op, backend, force_reload, text, o.err, o.ret,
                      o.entities, o.info, o.factory_calls, o.engine_calls)
    /\ UNCHANGED <<spacy_lib, mitie_lib, files, call, threads>>

\* ner_core.get_ner_instance(backend, force_reload)
GetNerInstance(backend, force_reload) ==
    /\ spacy_lib
    /\ LET g == get_ner_instance(backend, force_reload)
       IN  Apply("get_ner_instance", backend, force_reload, <<>>,
                 Outcome(g.err, g.ret, <<>>, NoInfo, g.inst, g.cur,
                         ner_backend, g.factory_calls, 0))

\* ner_core.extract_entities(text, backend)
ExtractEntities(text, backend) ==
    /\ spacy_lib
    /\ \E engine \in EngineOutcomes(
                        get_ner_instance(backend, FALSE).ret.backend, text) :
         Apply("extract_entities", backend, FALSE, text,
               extract_entities(text, backend, engine))

\* ner_core.get_backend_info(backend)
GetBackendInfo(backend) ==
    /\ spacy_lib
    /\ Apply("get_backend_info", backend, FALSE, <<>>,
             get_backend_info(backend))

\* ner_core.set_backend(backend)
SetBackend(backend) ==
    /\ spacy_lib
    /\ Apply("set_backend", backend, TRUE, <<>>, set_backend(backend))

\* ner_core imports spacy_backend, which imports spacy, at module level:
\* without the spacy package the import of ner_core raises and none of its
\* functions can be called; backend is the backend the caller was after
ImportNerCoreFails(backend) ==
    /\ ~spacy_lib
    /\ last' = Called("import ner_core", backend, FALSE, <<>>, "ImportError",
                      NoInstance, <<>>, NoInfo, 0, 0)
    /\ UNCHANGED <<spacy_lib, mitie_lib, files, ner_backend, ner_instance,
                   current_backend, instances, call, threads>>

\* the environment installs, removes or damages a model artifact between
\* two calls
ModelFileChange(artifact, status) ==
    /\ files[artifact] # status
    /\ files' = [files EXCEPT ![artifact] = status]
    /\ UNCHANGED <<spacy_lib, mitie_lib, ner_backend, ner_instance,
                   current_backend, instances, last, call, threads>>

Next ==
    \/ \E backend \in BackendArgs, force_reload \in BOOLEAN :
         GetNerInstance(backend, force_reload)
    \/ \E text \in Texts, backend \in BackendArgs :
         ExtractEntities(text, backend)
    \/ \E backend \in BackendArgs : GetBackendInfo(backend)
    \/ \E backend \in BackendArgs \ {None} : SetBackend(backend)
    \/ \E backend \in BackendArgs : ImportNerCoreFails(backend)
    \/ \E artifact \in Artifacts :
         \E status \in StatusOf(artifact) : ModelFileChange(artifact, status)

Spec == Init /\ [][Next]_vars

(***************************************************************************)
(* Direct calls of the adapters' methods: the tag normalizers, the         *)
(* deduplicator and the two extract_entities, on inputs drawn from bounded *)
(* sets.  The cache plays no part; the environment has everything          *)
(* installed.  Each run makes one call.                                    *)
(***************************************************************************)
KnownTags == {p[1] : p \in tag_mapping}

\* every second letter in lower case
mixed_case(s) ==
    [i \in 1..Len(s) |-> IF i % 2 = 0 THEN lower_char(s[i]) ELSE s[i]]

\* boundary markers of the BIO, BIOES and BILOU tagging schemes
SchemePrefixes ==
    {<<"B", "-">>, <<"I", "-">>, <<"E", "-">>, <<"S", "-">>,
     <<"L", "-">>, <<"U", "-">>}

UnknownTags == {<<>>, <<"O">>, <<"X", "Y", "Z">>, <<"P", "E", "R", "S">>}

\* raw tags given to the normalizers
TagInputs ==
    KnownTags \cup {lower(t) : t \in KnownTags}
    \cup {mixed_case(t) : t \in KnownTags}
    \cup {q \o t : q \in SchemePrefixes, t \in KnownTags}
    \cup {lower(q \o t) : q \in SchemePrefixes, t \in {PER, LOC, ORG}}
    \cup UnknownTags

LabelInputs ==
    {<<"J">>, <<"j">>, <<" ", "J", "\t">>, <<"M">>}

\* entity records given to the deduplicator
EntityInputs ==
    [tag : {PERSON, LOCATION},
     score : {SPACY_SCORE, <<"0", ".", "9", "0", "0", "0">>},
     label : LabelInputs]

\* raw results of the spaCy engine: doc.ents with label_ and text
SpacyEnts ==
    [label_ : {PER, <<"l", "o", "c">>, <<"B", "-", "O", "R", "G">>,
               <<"X", "Y", "Z">>},
     text : {<<"J">>, <<"j", " ">>, <<" ", "J">>, <<"M">>}]

\* raw results of the MITIE engine: (range, tag), (range, tag, score) or a
\* tuple of another length
MitieEnts ==
    [len : {3}, tag : {PERSON, <<"p", "e", "r">>, <<"X", "Y", "Z">>},
     score : {49999, 50000, 98765},
     tokens : {<< <<"J">> >>, << <<"j">> >>, << <<"J">>, <<"M">> >>}]
    \cup [len : {2}, tag : {PERSON, <<"p", "e", "r">>, <<"X", "Y", "Z">>},
          score : {0},
          tokens : {<< <<"J">> >>, << <<"j">> >>, << <<"J">>, <<"M">> >>}]
    \cup [len : {4}, tag : {PERSON}, score : {98765},
          tokens : {<< <<"J">> >>}]

\* what the engine does with a text if it is called: raise, or return a
\* list of raw results (for a text without content: raise, or return
\* nothing)
EngineInputs(text, Ents) ==
    {[raises |-> TRUE, ents |-> <<>>]}
    \cup UNION {{[raises |-> FALSE, ents |-> e] : e \in [1..k -> Ents]} :
                   k \in 0..(IF Blank(text) THEN 0 ELSE MaxRaw)}

InitAdapter ==
    /\ Init
    /\ spacy_lib
    /\ mitie_lib
    /\ \A artifact \in Artifacts : files[artifact] = "ok"
    /\ ner_backend = DEFAULT_BACKEND

\* backend._normalize_tag(tag)
NormalizeTagCall ==
    /\ call = NoCall
    /\ \E tag \in TagInputs :
         call' = Direct("_normalize_tag", tag, <<>>, NoEngine, <<>>,
                        normalize_tag(tag))
    /\ UNCHANGED core_vars

\* backend._normalize_mitie_tag(tag)
NormalizeMitieTagCall ==
    /\ call = NoCall
    /\ \E tag \in TagInputs :
         call' = Direct("_normalize_mitie_tag", tag, <<>>, NoEngine, <<>>,
                        normalize_mitie_tag(tag))
    /\ UNCHANGED core_vars

\* backend._ensure_unique_entities(entities)
EnsureUniqueCall ==
    /\ call = NoCall
    /\ \E k \in 0..MaxEnts : \E entities \in [1..k -> EntityInputs] :
         call' = Direct("_ensure_unique_entities", <<>>, <<>>, NoEngine,
                        entities, ensure_unique_entities(entities))
    /\ UNCHANGED core_vars

\* backend._ensure_unique_entities(entities) on the list a first call of it
\* returned
EnsureUniqueAgainCall ==
    /\ call.fn = "_ensure_unique_entities"
    /\ call' = Direct("_ensure_unique_entities again", <<>>, <<>>, NoEngine,
                      call.out, ensure_unique_entities(call.out))
    /\ UNCHANGED core_vars

\* SpacyNERBackend(...).extract_entities(text)
SpacyExtractCall ==
    /\ call = NoCall
    /\ \E text \in Texts : \E engine \in EngineInputs(text, SpacyEnts) :
         call' = Direct("spacy.extract_entities", <<>>, text, engine, <<>>,
                        spacy_extract_entities(
                            spacy_load_model(DEFAULT_SPACY_MODEL).adapter,
                            text, engine))
    /\ UNCHANGED core_vars

\* MitieNERBackend(...).extract_entities(text)
MitieExtractCall ==
    /\ call = NoCall
    /\ \E text \in Texts : \E engine \in EngineInputs(text, MitieEnts) :
         call' = Direct("mitie.extract_entities", <<>>, text, engine, <<>>,
                        mitie_extract_entities(
                            mitie_load_model(DEFAULT_MITIE_MODEL).adapter,
                            text, engine))
    /\ UNCHANGED core_vars

NextAdapter ==
    \/ NormalizeTagCall
    \/ NormalizeMitieTagCall
    \/ EnsureUniqueCall
    \/ EnsureUniqueAgainCall
    \/ SpacyExtractCall
    \/ MitieExtractCall

SpecAdapter == InitAdapter /\ [][NextAdapter]_vars

(***************************************************************************)
(* Concurrent calls of get_ner_instance.  Each thread executes the lines   *)
(* of ner_core.py 129-143 one read or write of a global at a time; the     *)
(* interpreter may switch threads between any two of them.  The libraries  *)
(* and the spaCy models are installed; the MITIE model may be missing.     *)
(***************************************************************************)
\* backend arguments of the concurrent calls
ThreadArgs == {None, spacy, mitie}

\* "_current_backend != requested_backend or force_reload" that holds
\* whatever the cache names
backend_changed_always(cur, requested_backend, force_reload) == TRUE

\* "_current_backend != requested_backend or force_reload" (the second and
\* third operand of the condition of line 135)
backend_changed(cur, requested_backend, force_reload) ==
    cur # requested_backend \/ force_reload

\* the calls started so far
CallsStarted ==
    Cardinality({p \in Threads \X (1..MaxCalls) : p[2] <= threads[p[1]].calls})

InCall(t) == threads[t].pc # "idle"

\* what thread t alone changes
ThreadStep(t, new) ==
    /\ threads' = [threads EXCEPT ![t] = new]
    /\ UNCHANGED <<spacy_lib, mitie_lib, files, ner_backend, last, call>>

InitConcurrent ==
    /\ Init
    /\ spacy_lib
    /\ mitie_lib
    /\ files[DEFAULT_SPACY_MODEL] = "ok"
    /\ files[FALLBACK_SPACY_MODEL] = "ok"

\* thread t enters get_ner_instance(backend, force_reload) and executes
\* line 129
EnterGetNerInstance(t, backend, force_reload) ==
    /\ ~InCall(t)
    /\ CallsStarted < MaxCalls
    /\ threads' =
         [u \in Threads |->
            IF u = t
            THEN [NoThread EXCEPT
                    !.pc = "135",
                    !.calls = threads[t].calls + 1,
                    !.backend = backend,
                    !.force_reload = force_reload,
                    !.requested_backend =
                        IF backend # None THEN backend ELSE ner_backend,
                    !.overlapped = \E v \in Threads \ {t} : InCall(v),
                    !.pre_instance = ner_instance,
                    !.pre_backend = current_backend]
            ELSE IF InCall(u) THEN [threads[u] EXCEPT !.overlapped = TRUE]
            ELSE threads[u]]
    /\ UNCHANGED <<spacy_lib, mitie_lib, files, ner_backend, ner_instance,
                   current_backend, instances, last, call>>

\* line 135: "_ner_instance is None or"
ReadInstance(t) ==
    /\ threads[t].pc = "135"
    /\ ThreadStep(t, IF ner_instance = NoInstance
                     THEN [threads[t] EXCEPT !.pc = "140", !.rebuild = TRUE]
                     ELSE [threads[t] EXCEPT !.pc = "136"])
    /\ UNCHANGED <<ner_instance, current_backend, instances>>

\* lines 136-137: "_current_backend != requested_backend or force_reload"
ReadCurrentBackend(t) ==
    /\ threads[t].pc = "136"
    /\ ThreadStep(t, IF backend_changed(current_backend,
                                        threads[t].requested_backend,
                                        threads[t].force_reload)
                     THEN [threads[t] EXCEPT !.pc = "140", !.rebuild = TRUE]
                     ELSE [threads[t] EXCEPT !.pc = "143"])
    /\ UNCHANGED <<ner_instance, current_backend, instances>>

\* line 140, right-hand side: SpanishNER(backend=requested_backend); an
\* exception ends the call
Construct(t) ==
    /\ threads[t].pc = "140"
    /\ LET new == SpanishNER(threads[t].requested_backend)
       IN  IF new.err # NoError
           THEN /\ ThreadStep(t, [threads[t] EXCEPT !.pc = "idle",
                                                    !.err = new.err,
                                                    !.factory_calls = 1])
                /\ UNCHANGED instances
           ELSE /\ ThreadStep(t, [threads[t] EXCEPT !.pc = "140 store",
                                                    !.built = new.obj,
                                                    !.factory_calls = 1])
                /\ instances' = instances + 1
    /\ UNCHANGED <<ner_instance, current_backend>>

\* line 140, assignment: "_ner_instance = ..."
StoreInstance(t) ==
    /\ threads[t].pc = "140 store"
    /\ ner_instance' = threads[t].built
    /\ ThreadStep(t, [threads[t] EXCEPT !.pc = "141"])
    /\ UNCHANGED <<current_backend, instances>>

\* line 141: "_current_backend = requested_backend"
StoreCurrentBackend(t) ==
    /\ threads[t].pc = "141"
    /\ current_backend' = threads[t].requested_backend
    /\ ThreadStep(t, [threads[t] EXCEPT !.pc = "143"])
    /\ UNCHANGED <<ner_instance, instances>>

\* line 143: "return _ner_instance"
Return(t) ==
    /\ threads[t].pc = "143"
    /\ ThreadStep(t, [threads[t] EXCEPT !.pc = "idle",
                                        !.ret = ner_instance])
    /\ UNCHANGED <<ner_instance, current_backend, instances>>

NextConcurrent ==
    \/ \E t \in Threads, backend \in ThreadArgs, force_reload \in BOOLEAN :
         EnterGetNerInstance(t, backend, force_reload)
    \/ \E t \in Threads : ReadInstance(t)
    \/ \E t \in Threads : ReadCurrentBackend(t)
    \/ \E t \in Threads : Construct(t)
    \/ \E t \in Threads : StoreInstance(t)
    \/ \E t \in Threads : StoreCurrentBackend(t)
    \/ \E t \in Threads : Return(t)

SpecConcurrent == InitConcurrent /\ [][NextConcurrent]_vars

(***************************************************************************)
(* Properties of the lifecycle cache (specification Spec).                 *)
(***************************************************************************)
\* the name a recorded call asked for: its backend argument, or the default
\* at the time of the call
Requested(c) == IF c.backend # None THEN c.backend ELSE c.pre_default

CacheUnchanged ==
    ner_instance = last.pre_instance /\ current_backend = last.pre_backend

\* C1: get_ner_instance called with the cached name and force_reload false
\* returns the cached instance itself, does not invoke the factory and
\* leaves both cache fields as they were.
C1_CachedInstanceReused ==
    (/\ last.op = "get_ner_instance"
     /\ last.backend # None
     /\ last.backend = last.pre_backend
     /\ ~last.force_reload)
    => /\ last.err = NoError
       /\ last.ret # NoInstance
       /\ last.ret = last.pre_instance
       /\ last.factory_calls = 0
       /\ CacheUnchanged

C1_Witness ==
    /\ last.op = "get_ner_instance"
    /\ last.backend = mitie
    /\ last.pre_backend = mitie
    /\ ~last.force_reload
    /\ last.ret = last.pre_instance
    /\ last.ret.id = 1

\* C2: every successful get_ner_instance call (forced or not) that asks for
\* "spacy" or "mitie" returns an adapter whose get_backend_info()["backend"]
\* is the requested name, and leaves that name and that instance in the
\* cache.
C2_ReturnedBackendMatchesRequest ==
    (/\ last.op = "get_ner_instance"
     /\ last.backend \in {spacy, mitie}
     /\ last.err = NoError)
    => /\ backend_info(last.ret.backend).backend = last.backend
       /\ current_backend = last.backend
       /\ ner_instance = last.ret

C2_Witness ==
    /\ last.op = "get_ner_instance"
    /\ last.backend = mitie
    /\ last.pre_backend = spacy
    /\ last.pre_instance.backend.backend = spacy
    /\ last.err = NoError
    /\ backend_info(last.ret.backend).backend = mitie

\* C3, as stated: get_ner_instance called with a name that is not one of
\* "spacy", "mitie" fails with ValueError and leaves the cache as it was.
C3_Original ==
    (/\ last.op = "get_ner_instance"
     /\ last.backend # None
     /\ last.backend \notin supported_backends)
    => (last.err = "ValueError" /\ CacheUnchanged)

\* a name given, whose lower-cased form is not a supported backend
UnknownName(backend) ==
    backend # None /\ lower(backend) \notin supported_backends

C3_Rejected ==
    (last.op = "get_ner_instance" /\ UnknownName(last.backend))
    => (last.err = "ValueError" /\ CacheUnchanged)

C3_ThenServedFromCache ==
    (/\ last.op = "get_ner_instance"
     /\ UnknownName(last.backend)
     /\ last.pre_backend # None
     /\ files' = files
     /\ last'.op = "get_ner_instance"
     /\ last'.backend = last.pre_backend
     /\ ~last'.force_reload)
    => /\ last'.err = NoError
       /\ last'.ret = last.pre_instance
       /\ last'.factory_calls = 0

\* C3, amended: get_ner_instance called with a non-empty name whose
\* lower-cased form is not "spacy" or "mitie" fails with ValueError, with or
\* without force_reload, and leaves the cached instance and name as they
\* were; the next request for the cached name is served from the cache
\* without a factory invocation.
C3_UnknownNameRejected ==
    [](C3_Rejected) /\ [][C3_ThenServedFromCache]_vars

C3_Witness ==
    /\ last.op = "get_ner_instance"
    /\ last.backend = bogus
    /\ last.force_reload
    /\ last.err = "ValueError"
    /\ last.pre_instance # NoInstance
    /\ ner_instance = last.pre_instance

\* C4: a failed construction (ImportError, RuntimeError or another
\* exception out of the adapter), forced or not, leaves both cache fields
\* as they were; the two cache fields are both empty or both set; every
\* cached or returned adapter has is_loaded = TRUE.
C4_CacheUpdatedOnlyOnSuccess ==
    /\ (ner_instance = NoInstance) <=> (current_backend = None)
    /\ ner_instance # NoInstance => ner_instance.backend.is_loaded
    /\ last.ret # NoInstance => last.ret.backend.is_loaded
    /\ (/\ last.factory_calls = 1
        /\ last.ret = NoInstance
        /\ last.err \in {"ImportError", "RuntimeError", "Exception"})
       => CacheUnchanged

C4_Witness ==
    /\ last.op = "get_ner_instance"
    /\ last.force_reload
    /\ last.backend = spacy
    /\ last.pre_backend = spacy
    /\ last.pre_instance # NoInstance
    /\ last.err = "RuntimeError"
    /\ ner_instance = last.pre_instance
    /\ current_backend = spacy

\* what set_backend does with a name that is not recognized
C5_Unrecognized ==
    (last.op = "set_backend" /\ ~is_valid_backend(last.backend))
    => /\ last.err = "ValueError"
       /\ ner_backend = last.pre_default
       /\ CacheUnchanged

\* the cache after a successful set_backend: a new instance for the name
C5_Rebuilt ==
    (/\ last.op = "set_backend"
     /\ is_valid_backend(last.backend)
     /\ last.err = NoError)
    => /\ current_backend = last.backend
       /\ ner_instance = last.ret
       /\ ner_instance.backend.backend = lower(last.backend)
       /\ last.factory_calls = 1
       /\ ner_instance # last.pre_instance
       /\ ner_instance.id = instances
       /\ ner_instance.id > last.pre_instance.id

\* C5, as stated: set_backend with an unrecognized name fails with
\* ValueError and changes neither default nor cache; with a recognized name
\* and a successful load the default equals the name and the cache holds a
\* new instance for it.
C5_Original ==
    /\ C5_Unrecognized
    /\ C5_Rebuilt
    /\ (/\ last.op = "set_backend"
        /\ is_valid_backend(last.backend)
        /\ last.err = NoError)
       => ner_backend = last.backend

\* C5, amended: as stated, except that after a successful set_backend(name)
\* the default equals the lower-cased name.
C5_SetBackend ==
    /\ C5_Unrecognized
    /\ C5_Rebuilt
    /\ (/\ last.op = "set_backend"
        /\ is_valid_backend(last.backend)
        /\ last.err = NoError)
       => ner_backend = lower(last.backend)

C5_Witness ==
    /\ last.op = "set_backend"
    /\ last.backend = SPACY
    /\ last.pre_backend = SPACY
    /\ last.pre_default = mitie
    /\ last.err = NoError
    /\ ner_backend = spacy
    /\ ner_instance.id = 2

\* an extract_entities call in which the engine raised
EngineRaised(c) ==
    c.op = "extract_entities" /\ c.ret # NoInstance /\ c.err # NoError

C6_Reported ==
    EngineRaised(last)
    => /\ last.err = "RuntimeError"
       /\ last.engine_calls = 1
       /\ ner_instance = last.ret
       /\ current_backend = Requested(last)
       /\ last.factory_calls = 0 => CacheUnchanged

C6_ThenServedFromCache ==
    (/\ EngineRaised(last)
     /\ files' = files
     /\ last'.op \in {"extract_entities", "get_ner_instance"}
     /\ last'.backend = last.backend
     /\ ~last'.force_reload)
    => /\ last'.ret = last.ret
       /\ last'.factory_calls = 0
       /\ ner_instance' = ner_instance
       /\ current_backend' = current_backend

\* C6: when the engine raises during extract_entities(text, backend) the
\* caller gets a RuntimeError after one engine call (no retry), the cache
\* holds the adapter that was resolved for the call (unchanged if the call
\* was a cache hit), and the next extract_entities or get_ner_instance call
\* for the same backend argument gets that adapter without a factory
\* invocation.
C6_EngineErrorKeepsCache ==
    [](C6_Reported) /\ [][C6_ThenServedFromCache]_vars

C6_Witness ==
    /\ EngineRaised(last)
    /\ last.backend = spacy
    /\ last.factory_calls = 0
    /\ last.pre_instance = ner_instance
    /\ ner_instance.id = 1

\* the configured spaCy model, or the fallback model in its place, loads
SpacyModelLoads ==
    \/ files[DEFAULT_SPACY_MODEL] = "ok"
    \/ (files[DEFAULT_SPACY_MODEL] = "missing"
        /\ files[FALLBACK_SPACY_MODEL] = "ok")

\* a call step without the MITIE library: a request for "mitie" fails with
\* ImportError, a request for "spacy" gets its adapter
C14_MitieAbsent ==
    ~mitie_lib
    => /\ Requested(last') = mitie => last'.err = "ImportError"
       /\ (spacy_lib /\ Requested(last') = spacy /\ SpacyModelLoads)
          => last'.ret # NoInstance

\* a call step without the spaCy library: a request for "spacy" fails with
\* ImportError, a request for "mitie" gets its adapter
C14_SpacyAbsent ==
    ~spacy_lib
    => /\ Requested(last') = spacy => last'.err = "ImportError"
       /\ (/\ mitie_lib
           /\ Requested(last') = mitie
           /\ files[DEFAULT_MITIE_MODEL] = "ok")
          => (last'.err # "ImportError" /\ last'.ret # NoInstance)

\* C14: a missing runtime library is fatal only for its own backend: without
\* the MITIE library requests for "mitie" fail with ImportError and requests
\* for "spacy" still succeed; without the spaCy library requests for "spacy"
\* fail with ImportError and requests for "mitie" still succeed.
C14_LibraryFatalForOwnBackendOnly ==
    [][files' = files => (C14_MitieAbsent /\ C14_SpacyAbsent)]_vars

\* the model the configuration names for a backend
ConfiguredModel(backend) ==
    IF backend = spacy THEN DEFAULT_SPACY_MODEL ELSE DEFAULT_MITIE_MODEL

\* a call step that invoked the factory for a backend whose library is
\* installed
Constructs(backend) ==
    /\ files' = files
    /\ last'.factory_calls = 1
    /\ lower(Requested(last')) = backend
    /\ backend = mitie => mitie_lib

\* the call of this step failed in construction: no adapter, cache as before
ConstructionFailed(errors) ==
    /\ last'.err \in errors
    /\ last'.ret = NoInstance
    /\ UNCHANGED <<ner_instance, current_backend>>

\* C15, as stated: for either backend, a construction with the configured
\* model missing fails with RuntimeError and returns no adapter, and every
\* adapter returned or cached was loaded from the configured model.
C15_Original ==
    [][/\ \A backend \in supported_backends :
            (Constructs(backend)
             /\ files[ConfiguredModel(backend)] = "missing")
            => ConstructionFailed({"RuntimeError"})
       /\ \A obj \in {last'.ret, ner_instance'} \ {NoInstance} :
            obj.backend.handle = ConfiguredModel(obj.backend.backend)]_vars

\* an adapter reports the model it was loaded from, and that is the
\* configured model or, for spaCy, the fallback model
LoadedFromReportedModel(adapter) ==
    /\ adapter.handle = adapter.model_name
    /\ adapter.model_name \in
         {ConfiguredModel(adapter.backend)}
         \cup (IF adapter.backend = spacy THEN {FALLBACK_SPACY_MODEL}
               ELSE {})

\* C15, amended: with the MITIE model file missing a MITIE construction
\* fails with RuntimeError, returns no adapter and leaves the cache as it
\* was.  With the configured spaCy model missing a spaCy construction loads
\* es_core_news_sm in its place and returns an adapter that reports
\* es_core_news_sm; it fails (no adapter, cache as it was) only if
\* es_core_news_sm does not load either.  With the configured spaCy model
\* present but failing to load the construction fails with RuntimeError.
\* Every adapter returned or cached was loaded from the model it reports.
C15_ModelUnavailable ==
    [][/\ (Constructs(mitie) /\ files[DEFAULT_MITIE_MODEL] = "missing")
          => ConstructionFailed({"RuntimeError"})
       /\ (Constructs(spacy) /\ files[DEFAULT_SPACY_MODEL] = "missing")
          => IF files[FALLBACK_SPACY_MODEL] = "ok"
             THEN /\ last'.ret # NoInstance
                  /\ last'.ret.backend.model_name = FALLBACK_SPACY_MODEL
                  /\ ner_instance' = last'.ret
             ELSE ConstructionFailed({"RuntimeError", "Exception"})
       /\ (Constructs(spacy) /\ files[DEFAULT_SPACY_MODEL] = "broken")
          => ConstructionFailed({"RuntimeError"})
       /\ \A obj \in {last'.ret, ner_instance'} \ {NoInstance} :
            LoadedFromReportedModel(obj.backend)]_vars

C15_Witness ==
    /\ last.op = "get_ner_instance"
    /\ last.backend = spacy
    /\ last.factory_calls = 1
    /\ files[DEFAULT_SPACY_MODEL] = "missing"
    /\ last.err = NoError
    /\ last.ret.backend.handle = FALLBACK_SPACY_MODEL
    /\ backend_info(last.ret.backend).model = FALLBACK_SPACY_MODEL
    /\ ner_instance = last.ret

\* C16: extract_entities or get_backend_info called without a backend
\* argument while an instance is cached uses that instance: no factory
\* invocation, the cache stays as it was and the answer comes from the
\* cached backend, also when the configured default names another backend;
\* with nothing cached the configured default is built.
C16_NoArgumentUsesCachedInstance ==
    (/\ last.op \in {"extract_entities", "get_backend_info"}
     /\ last.backend = None)
    => IF last.pre_instance # NoInstance
       THEN /\ last.factory_calls = 0
            /\ last.ret = last.pre_instance
            /\ CacheUnchanged
       ELSE last.ret # NoInstance
            => backend_info(last.ret.backend).backend = last.pre_default

\* a set_backend call with a recognized name whose adapter did not build
SetBackendFailed(c) ==
    c.op = "set_backend" /\ is_valid_backend(c.backend) /\ c.err # NoError

C20_NothingChanged ==
    SetBackendFailed(last)
    => (ner_backend = last.pre_default /\ CacheUnchanged)

C20_ThenServedFromCache ==
    (/\ SetBackendFailed(last)
     /\ last.pre_instance # NoInstance
     /\ files' = files
     /\ last'.op = "extract_entities"
     /\ last'.backend = None)
    => /\ last'.ret = last.pre_instance
       /\ last'.factory_calls = 0

\* C20: after a set_backend call with a recognized name whose adapter fails
\* to build, the default backend and the cache are what they were before
\* the call, and a following extract_entities without a backend argument
\* is served by the previously cached instance without a factory
\* invocation.
C20_SetBackendAllOrNothing ==
    [](C20_NothingChanged) /\ [][C20_ThenServedFromCache]_vars

C21_CachedNameCanonical ==
    current_backend # None => current_backend \in supported_backends

C21_SameBackendHitsCache ==
    (/\ files' = files
     /\ last'.op \in {"get_ner_instance", "extract_entities",
                      "get_backend_info"}
     /\ ~last'.force_reload
     /\ ner_instance # NoInstance
     /\ lower(Requested(last')) = lower(current_backend))
    => /\ last'.factory_calls = 0
       /\ last'.ret = ner_instance
       /\ ner_instance' = ner_instance

\* C21: the cached backend name is always "spacy" or "mitie", and an
\* unforced request that names the cached backend in any letter case (or
\* names none while the default is the cached backend) is a cache hit: no
\* factory invocation, the cached instance is returned and kept.
C21_CacheIgnoresLetterCase ==
    [](C21_CachedNameCanonical) /\ [][C21_SameBackendHitsCache]_vars

(***************************************************************************)
(* Properties of the adapters' methods (specification SpecAdapter).        *)
(***************************************************************************)
ExtractFns == {"spacy.extract_entities", "mitie.extract_entities"}

NormalizeFns == {"_normalize_tag", "_normalize_mitie_tag"}

\* C7: extract_entities of either adapter on an empty or whitespace-only
\* text returns an empty list without an error and without calling the
\* engine.
C7_BlankTextSkipsEngine ==
    (call.fn \in ExtractFns /\ Blank(call.text))
    => call.out = [err |-> NoError, entities |-> <<>>, engine_calls |-> 0]

C7_Witness ==
    /\ call.fn = "mitie.extract_entities"
    /\ call.text = <<" ", "\t">>
    /\ call.engine.raises
    /\ call.out.engine_calls = 0
    /\ call.out.entities = <<>>

\* a label without leading or trailing whitespace
Trimmed(label) ==
    label = <<>>
    \/ (label[1] \notin Whitespace /\ label[Len(label)] \notin Whitespace)

\* C8: every record extract_entities of either adapter returns has one of
\* the five canonical tags and a label without leading or trailing
\* whitespace, and no two returned records have the same (lower-cased
\* label, tag).
C8_ReturnedRecordsNormalized ==
    (call.fn \in ExtractFns /\ call.out.err = NoError)
    => LET es == call.out.entities
       IN  /\ \A i \in DOMAIN es :
                /\ es[i].tag \in {PERSON, LOCATION, ORGANIZATION, MISC, PLACE}
                /\ Trimmed(es[i].label)
           /\ \A i, j \in DOMAIN es :
                (lower(es[i].label) = lower(es[j].label)
                 /\ es[i].tag = es[j].tag) => i = j

C8_Witness ==
    /\ call.fn = "spacy.extract_entities"
    /\ call.engine.ents = <<[label_ |-> PER, text |-> <<" ", "J">>],
                            [label_ |-> PER, text |-> <<"j", " ">>]>>
    /\ call.out.entities =
         <<[tag |-> PERSON, score |-> SPACY_SCORE, label |-> <<"J">>]>>

\* the canonical tag of a raw tag, by the table of rules
Canonical(tag) ==
    LET u == upper(tag)
    IN  IF u \in {PER, PERSON} THEN PERSON
        ELSE IF u \in {LOC, LOCATION, GPE} THEN LOCATION
        ELSE IF u \in {ORG, ORGANIZATION} THEN ORGANIZATION
        ELSE IF u \in {FAC, FACILITY, PLACE} THEN PLACE
        ELSE MISC

\* C9: both tag normalizers map a raw tag in any letter case to PERSON for
\* PER/PERSON, LOCATION for LOC/LOCATION/GPE, ORGANIZATION for
\* ORG/ORGANIZATION, PLACE for FAC/FACILITY/PLACE and MISC for every other
\* string; the result is always one of the five canonical tags.
C9_NormalizerTotal ==
    call.fn \in NormalizeFns
    => /\ call.out = Canonical(call.tag)
       /\ call.out \in {PERSON, LOCATION, ORGANIZATION, MISC, PLACE}

C9_Witness ==
    /\ call.fn = "_normalize_mitie_tag"
    /\ call.tag = <<"g", "p", "e">>
    /\ call.out = LOCATION

\* the raw tags that are a boundary marker followed by a known tag, in any
\* letter case, with that known tag
Prefixed(tag, t) ==
    t \in KnownTags /\ \E q \in SchemePrefixes : upper(tag) = q \o t

\* C10, as stated: normalizing a known raw tag behind a boundary marker
\* ("B-PER", "I-LOC") gives the canonical tag of the known raw tag.
C10_Original ==
    call.fn \in NormalizeFns
    => \A t \in KnownTags, q \in SchemePrefixes :
         call.tag = q \o t => call.out = Canonical(t)

\* C10, amended: boundary markers are not stripped; a known raw tag behind
\* a boundary marker ("B-PER", "I-LOC") is looked up as it is, is not in the
\* table, and normalizes to MISC.
C10_PrefixedTagIsMisc ==
    call.fn \in NormalizeFns
    => \A t \in KnownTags : Prefixed(call.tag, t) => call.out = MISC

C10_Witness ==
    /\ call.fn = "_normalize_tag"
    /\ call.tag = <<"B", "-">> \o PER
    /\ call.out = MISC

\* C11: deduplicating the list a deduplication returned gives that list
\* again, element for element, labels and scores included.
C11_DedupIdempotent ==
    call.fn = "_ensure_unique_entities again" => call.out = call.entities

C11_Witness ==
    /\ call.fn = "_ensure_unique_entities again"
    /\ call.entities =
         <<[tag |-> PERSON, score |-> <<"0", ".", "9", "0", "0", "0">>,
            label |-> <<"J">>],
           [tag |-> LOCATION, score |-> SPACY_SCORE, label |-> <<"j">>]>>
    /\ call.out = call.entities

\* two records the deduplicator is to merge: trimmed labels equal ignoring
\* case, tags equal
SameEntity(a, b) ==
    lower(strip(a.label)) = lower(strip(b.label)) /\ a.tag = b.tag

\* the positions of the records that are the first of their kind
FirstOccurrences(xs) ==
    {i \in DOMAIN xs : \A j \in 1..(i - 1) : ~SameEntity(xs[j], xs[i])}

\* the k-th smallest member of a set of positions
Nth(S, k) == CHOOSE i \in S : Cardinality({j \in S : j <= i}) = k

\* C12: the deduplicator returns the first occurrence of each (trimmed
\* lower-cased label, tag), in the order of first occurrence, each with its
\* own score and tag and its label trimmed; scores play no part in merging
\* and records that differ in tag are both kept.
C12_FirstOccurrenceKept ==
    call.fn = "_ensure_unique_entities"
    => LET xs == call.entities
           ys == call.out
           F == FirstOccurrences(xs)
       IN  /\ Len(ys) = Cardinality(F)
           /\ \A k \in DOMAIN ys :
                ys[k] = [xs[Nth(F, k)] EXCEPT
                            !.label = strip(xs[Nth(F, k)].label)]

C12_Witness ==
    /\ call.fn = "_ensure_unique_entities"
    /\ call.entities =
         <<[tag |-> PERSON, score |-> SPACY_SCORE,
            label |-> <<" ", "J", "\t">>],
           [tag |-> PERSON, score |-> <<"0", ".", "9", "0", "0", "0">>,
            label |-> <<"j">>],
           [tag |-> LOCATION, score |-> SPACY_SCORE, label |-> <<"J">>]>>
    /\ call.out =
         <<[tag |-> PERSON, score |-> SPACY_SCORE, label |-> <<"J">>],
           [tag |-> LOCATION, score |-> SPACY_SCORE, label |-> <<"J">>]>>

\* the score of a raw MITIE result: its own, or 0.95 if it has none
ScoreOf(raw) == IF raw.len = 2 THEN DEFAULT_SCORE ELSE raw.score

\* the record a raw MITIE result of two or three fields stands for
MitieRecord(raw) ==
    [tag |-> Canonical(raw.tag), score |-> format_4f(ScoreOf(raw)),
     label |-> strip(join_space(raw.tokens))]

\* the record a raw spaCy result stands for
SpacyRecord(raw) ==
    [tag |-> Canonical(raw.label_), score |-> SPACY_SCORE,
     label |-> strip(raw.text)]

\* the positions of the raw MITIE results with a score of at least 0.5
Scored(raws) ==
    {i \in DOMAIN raws : raws[i].len \in {2, 3} /\ ScoreOf(raws[i]) >= MIN_SCORE}

\* C17: every record the MITIE adapter returns is the record of a raw
\* result whose score (0.95 if it has none) is at least 0.5, with that score
\* to four decimals, and every such raw result is represented in the
\* output; the spaCy adapter represents every raw result and gives every
\* record the score "0.95".
C17_MitieScoreFilter ==
    /\ (call.fn = "mitie.extract_entities" /\ call.out.err = NoError)
       => LET raws == call.engine.ents
              es == call.out.entities
          IN  /\ \A k \in DOMAIN es :
                   \E i \in Scored(raws) : es[k] = MitieRecord(raws[i])
              /\ \A i \in Scored(raws) :
                   \E k \in DOMAIN es : SameEntity(es[k], MitieRecord(raws[i]))
    /\ (call.fn = "spacy.extract_entities" /\ call.out.err = NoError)
       => LET raws == call.engine.ents
              es == call.out.entities
          IN  /\ \A k \in DOMAIN es :
                   \E i \in DOMAIN raws : es[k] = SpacyRecord(raws[i])
              /\ \A i \in DOMAIN raws :
                   \E k \in DOMAIN es : SameEntity(es[k], SpacyRecord(raws[i]))

C17_Witness ==
    /\ call.fn = "mitie.extract_entities"
    /\ call.engine.ents =
         <<[len |-> 3, tag |-> PERSON, score |-> 49999,
            tokens |-> << <<"J">> >>],
           [len |-> 3, tag |-> PERSON, score |-> MIN_SCORE,
            tokens |-> << <<"J">>, <<"M">> >>]>>
    /\ call.out.entities =
         <<[tag |-> PERSON, score |-> <<"0", ".", "5", "0", "0", "0">>,
            label |-> <<"J", " ", "M">>]>>

(***************************************************************************)
(* Properties of concurrent get_ner_instance calls (specification          *)
(* SpecConcurrent).                                                        *)
(***************************************************************************)
\* thread t has made a call and is not inside one
Completed(t) == threads[t].calls > 0 /\ ~InCall(t)

\* each thread has made one call: both asked for the same name, unforced,
\* from an empty cache, and both built an instance
TwoFirstCalls ==
    /\ \A t \in Threads :
         /\ Completed(t)
         /\ threads[t].calls = 1
         /\ ~threads[t].force_reload
         /\ threads[t].err = NoError
    /\ \A t, u \in Threads :
         threads[t].requested_backend = threads[u].requested_backend

\* the condition of line 135 on the cache a call started from
StaleOrMissing(c) ==
    \/ c.pre_instance = NoInstance
    \/ c.pre_backend # c.requested_backend
    \/ c.force_reload

\* C13: the check of line 135 and the stores of lines 140-141 are not one
\* step.  A call that has the function to itself invokes the factory
\* exactly when the cache it started from is missing or stale or a reload
\* is forced, so two serial unforced calls for one name build one instance;
\* two overlapping ones that both see the cache missing each invoke the
\* factory, two instances are built and the cache keeps one of them.
C13_RaceDuplicatesLoad ==
    /\ \A t \in Threads :
         Completed(t)
         => /\ threads[t].factory_calls = (IF threads[t].rebuild THEN 1 ELSE 0)
            /\ ~threads[t].overlapped
               => (threads[t].rebuild <=> StaleOrMissing(threads[t]))
    /\ (TwoFirstCalls /\ \A t \in Threads : ~threads[t].overlapped)
       => instances = 1
    /\ (TwoFirstCalls /\ \A t \in Threads : threads[t].rebuild)
       => /\ instances = 2
          /\ \E t \in Threads :
               /\ ner_instance = threads[t].built
               /\ \A u \in Threads \ {t} :
                    threads[u].built \notin {NoInstance, ner_instance}

C13_Witness ==
    /\ TwoFirstCalls
    /\ \A t \in Threads :
         /\ threads[t].backend = spacy
         /\ threads[t].overlapped
         /\ threads[t].rebuild
         /\ threads[t].factory_calls = 1
         /\ threads[t].pre_instance = NoInstance
    /\ instances = 2
    /\ threads["t1"].built.id = 1
    /\ threads["t1"].ret = threads["t1"].built
    /\ ner_instance = threads["t2"].built
    /\ ner_instance # threads["t1"].built

\* C18: when two get_ner_instance calls for different backends have run
\* concurrently and both have completed, the cached backend name is the
\* backend of the cached adapter.
C18_CachedPairConsistent ==
    (/\ \A t \in Threads :
          /\ Completed(t)
          /\ threads[t].calls = 1
          /\ threads[t].overlapped
     /\ threads["t1"].requested_backend # threads["t2"].requested_backend
     /\ ner_instance # NoInstance)
    => current_backend = backend_info(ner_instance.backend).backend

\* C19: with supported names and successful loads, every completed
\* get_ner_instance call has returned an adapter of the backend the call
\* asked for, under any interleaving.
C19_ReturnsRequestedBackend ==
    \A t \in Threads :
       (/\ Completed(t)
        /\ threads[t].err = NoError
        /\ \A artifact \in Artifacts : files[artifact] = "ok")
       => backend_info(threads[t].ret.backend).backend
              = threads[t].requested_backend

=============================================================================
